---- MODULE Spec2Model ----
(***************************************************************************)
(* Certificate generator: the batch orchestrator (BatchCertificateGenerator*)
(* .generateBatchCertificates), the batch QR provider (QRCodeGenerator     *)
(* .generateBatchQRCodes) and the two CertificateRenderer implementations  *)
(* found in the repository, modelled as one state machine.                 *)
(*                                                                         *)
(* Strings that matter character by character (participant names, file    *)
(* names) are sequences of one-character strings.  An artifact is the      *)
(* content of the canvas when it is encoded: the sequence of paint         *)
(* operations performed since the canvas was last resized.                 *)
(***************************************************************************)
EXTENDS Integers, Sequences, FiniteSets, TLC

\* Largest number of participants in a batch.
MaxRecords == 2

\* Largest number of batch runs in flight at the same time.
MaxRuns == 2

\* Largest number of preview renders suspended at the same time.
MaxInFlight == 2

\* Largest number of rows of an imported file.
MaxRows == 2

\* Longest text given to the text functions, in symbols, and the largest
\* width, in character widths.
MaxTextLen == 5

MaxWidth == 5

\* Largest number of preview QR generations pending at the same time.
MaxPending == 2

\* Participant names of the model: two that differ but derive the same file
\* name, and a third that derives another one.
Names == { <<"a", " ", "b">>, <<"a", "-", "b">>, <<"c">> }

\* The characters of Names that match [a-zA-Z0-9].
AlphaNum == {"a", "b", "c"}

\* JavaScript's undefined, where a QR image URL is expected.
NoValue == <<"undefined">>

\* No encoded image: the '' a preview URL starts as, the undefined the utils
\* renderer resolves with.  An encoded canvas is never empty.
NoArtifact == <<>>

VARIABLES
    \* props of BatchCertificateGenerator
    participants, template, includeQR,
    \* which CertificateRenderer the render steps follow
    rendererImpl,
    \* generateBatchCertificates: position, loop index, locals
    pc, i, errors, qrCodes, zip,
    \* React state of BatchCertificateGenerator
    isGenerating, progress,
    \* generateBatchQRCodes: promises not yet settled, its Map, Promise.all
    qrPending, qrMap, qrRejected,
    \* CertificateRenderer.renderCertificate: suspension point, config,
    \* canvas content, settled value; the context state and the width of
    \* the canvas; the template the renderer stored
    rpc, cfg, canvas, rret, ctx, canvasWidth, currentTemplate,
    \* CertificatePreview
    previewConfig, previewUrl, isRendering,
    \* history: records submitted to the renderer, per-record outcomes, the
    \* archive download, the ids whose QR generation failed, and for the
    \* render in flight the failed image loads / a failed drawing primitive
    attempted, outcomes, downloaded, qrFailedIds, loadFailed, primitiveFailed,
    \* history: zip.generateAsync rejected, and the progress updates made at
    \* the top of the loop body, each with the number of outcomes recorded
    \* when it was made
    archiveFailed, notifications,
    \* App: the tab shown; whether the batch view that started the run is
    \* still mounted; the template and includeQR the running callback closed
    \* over; history: the App's template or includeQR was edited while a run
    \* was in flight
    activeTab, attached, runTemplate, runIncludeQR, editedInFlight,
    \* history: the template of the call made on the renderer before the
    \* current one, if any
    previousTemplate,
    \* CertificatePreview with its renders followed one by one: the calls of
    \* renderCertificate that are suspended on an image load, each with its
    \* own renderer, all on the canvas of canvasRef
    inflight,
    \* the batch runs left running by a view that is gone and no longer
    \* followed, each with the number of its records
    orphaned,
    \* the text functions called on their own: the text and the width given,
    \* the lines wrapText returned, the operations drawBodyText painted with
    \* the text as body text, and which of the two has been called
    wrapInput, wrapWidth, wrapLines, bodyDrawn, textPc,
    \* the CSV import: the file given (its kind and its parsed rows), the
    \* result parseCSVFile resolved with, and whether it has been called
    csvFile, csvRows, csvResult, csvPc,
    \* App, the QR code of the preview: the participant shown, the stored QR
    \* image URL, and the ids of the generations started by the effect that
    \* have not settled yet
    selectedParticipant, qrCodeUrl, qrGenerations

vars == << participants, template, includeQR, rendererImpl,
           pc, i, errors, qrCodes, zip, isGenerating, progress,
           qrPending, qrMap, qrRejected, rpc, cfg, canvas, rret,
           ctx, canvasWidth, currentTemplate,
           previewConfig, previewUrl, isRendering,
           attempted, outcomes, downloaded, qrFailedIds, loadFailed,
           primitiveFailed, archiveFailed, notifications,
           activeTab, attached, runTemplate, runIncludeQR, editedInFlight,
           previousTemplate, inflight, orphaned,
           wrapInput, wrapWidth, wrapLines, bodyDrawn, textPc,
           csvFile, csvRows, csvResult, csvPc,
           selectedParticipant, qrCodeUrl, qrGenerations >>

propVars    == << participants, template, includeQR, rendererImpl >>
batchVars   == << pc, i, errors, qrCodes, zip, isGenerating, progress,
                  attempted, outcomes, downloaded, archiveFailed,
                  notifications, runTemplate, runIncludeQR >>
textVars    == << wrapInput, wrapWidth, wrapLines, bodyDrawn, textPc >>
csvVars     == << csvFile, csvRows, csvResult, csvPc >>
appQRVars   == << selectedParticipant, qrCodeUrl, qrGenerations >>
tabVars     == << activeTab, attached, editedInFlight, previousTemplate,
                  inflight, orphaned, textVars, csvVars, appQRVars >>
qrVars      == << qrPending, qrMap, qrRejected, qrFailedIds >>
renderVars  == << rpc, cfg, canvas, rret, ctx, canvasWidth, currentTemplate,
                  loadFailed, primitiveFailed >>
previewVars == << previewConfig, previewUrl, isRendering >>

N == Len(participants)

-----------------------------------------------------------------------------
(* Values *)

\* titleText of App's defaultTemplate, and another title a user may type.
DefaultTitle == <<"Certificate of Achievement">>

TitleTexts == { DefaultTitle, <<"Diploma">> }

\* logoPosition / signaturePosition: 'left' | 'center' | 'right'
Positions == {"left", "center", "right"}

\* The placeholder of a body text, one symbol of the text.
NameToken == "{name}"

\* bodyText of App's defaultTemplate, shortened: words, {name}, words.
DefaultBody == <<"x", " ", NameToken, " ", "y">>

\* height of App's defaultTemplate
CanvasHeight == 600

\* The number that is not one: what arithmetic on a field the object does
\* not have yields.  Every coordinate and size of the program is positive.
NaN == -1

\* The templates of the App: width and bodySize as in defaultTemplate;
\* participantNameSize (and with it participantNameColor) as the type
\* declares it, or absent as in defaultTemplate.
Templates == [logoUrl : BOOLEAN, signatureUrl : BOOLEAN,
              titleText : TitleTexts,
              logoPosition : Positions, signaturePosition : Positions,
              bodyText : {DefaultBody}, bodySize : {18},
              participantNameSize : {24, NaN}, width : {800}]

\* App's defaultTemplate, with or without a logo and a signature image.
DefaultTemplates ==
    {t \in Templates : /\ t.titleText = DefaultTitle
                       /\ t.logoPosition = "center"
                       /\ t.signaturePosition = "right"
                       /\ t.participantNameSize = NaN}

\* Row k of an import gets id participant_<k>_<time>: distinct per row.
ParticipantOf(k, name) ==
    [id |-> ToString(k), name |-> name, course |-> <<>>, grade |-> <<>>]

\* `${baseUrl}/verify/${participantId}` encoded as a QR image.
generateVerificationQR(id) == <<"verify", id>>

\* A paint operation: what is painted, with which content, at which
\* coordinate, and for text with which context state.
NoStyle == [font |-> "", fillStyle |-> "", textAlign |-> "",
            textBaseline |-> ""]

OpAt(name, arg, at) == [op |-> name, arg |-> arg, at |-> at, style |-> NoStyle]

Op(name, arg) == OpAt(name, arg, 0)

\* A Map<string, string> or the files of a JSZip: a set of entries with
\* distinct keys; set / file replace the entry of an existing key.
EmptyMap == {}

MapSetKeepFirst(m, key, value) ==
    IF \E e \in m : e.key = key THEN m
    ELSE m \cup {[key |-> key, value |-> value]}

MapSet(m, key, value) ==
    {e \in m : e.key # key} \cup {[key |-> key, value |-> value]}

MapHas(m, key) == \E e \in m : e.key = key

MapGet(m, key) == (CHOOSE e \in m : e.key = key).value

MapKeys(m) == {e.key : e \in m}

\* let qrCodes: Map<string, string> | null = null
NullMap == [null |-> TRUE, map |-> EmptyMap]

\* The config of a renderer that has rendered nothing yet.
NoConfig ==
    [template |-> [logoUrl |-> FALSE, signatureUrl |-> FALSE,
                   titleText |-> DefaultTitle,
                   logoPosition |-> "center", signaturePosition |-> "right",
                   bodyText |-> DefaultBody, bodySize |-> 18,
                   participantNameSize |-> 24, width |-> 800],
     participant |-> [id |-> "", name |-> <<>>, course |-> <<>>,
                      grade |-> <<>>],
     qrCodeUrl |-> NoValue, includeQR |-> FALSE]

\* The progress state a BatchCertificateGenerator is mounted with.
NoProgress == [current |-> 0, total |-> 0,
               currentParticipant |-> <<>>, errors |-> <<>>]

\* The three message shapes pushed to an error list.
QRError == [kind |-> "qr", name |-> <<>>]
CertError(name) == [kind |-> "record", name |-> name]
BatchError == [kind |-> "batch", name |-> <<>>]

\* participant.name.replace(/[^a-zA-Z0-9]/g, '-')
Sanitize(name) ==
    [k \in 1..Len(name) |-> IF name[k] \in AlphaNum THEN name[k] ELSE "-"]

\* `certificate-${...}.png`
FileName(name) == <<"certificate-">> \o Sanitize(name) \o <<".png">>

-----------------------------------------------------------------------------
(* Text.  A string is a sequence of symbols: single characters and the     *)
(* placeholder {name}, kept as one symbol.  measureText is modelled with   *)
(* every character one unit wide, whatever the font.                       *)

\* s.indexOf(sym) + 1: the position of the first sym in s, 0 when absent
IndexOf(s, sym) ==
    IF \E k \in 1..Len(s) : s[k] = sym
    THEN CHOOSE k \in 1..Len(s) :
             s[k] = sym /\ \A j \in 1..(k - 1) : s[j] # sym
    ELSE 0

\* s.includes(sym)
Includes(s, sym) == IndexOf(s, sym) # 0

\* s.split(sep): the pieces between the occurrences of sep; ''.split(sep)
\* is [''].
RECURSIVE Split(_, _)
Split(s, sep) ==
    LET k == IndexOf(s, sep)
    IN IF k = 0 THEN << s >>
       ELSE << SubSeq(s, 1, k - 1) >> \o Split(SubSeq(s, k + 1, Len(s)), sep)

\* s.trim(), with the space as the only white space of the model
RECURSIVE Trim(_)
Trim(s) ==
    IF s = <<>> THEN s
    ELSE IF Head(s) = " " THEN Trim(Tail(s))
    ELSE IF s[Len(s)] = " " THEN Trim(SubSeq(s, 1, Len(s) - 1))
    ELSE s

\* s.replace(sym, by): the first occurrence only
Replace(s, sym, by) ==
    LET k == IndexOf(s, sym)
    IN IF k = 0 THEN s
       ELSE SubSeq(s, 1, k - 1) \o by \o SubSeq(s, k + 1, Len(s))

\* ctx.measureText(s).width; the literal {name} is six characters wide.
RECURSIVE measureText(_)
measureText(s) ==
    IF s = <<>> THEN 0
    ELSE (IF Head(s) = NameToken THEN 6 ELSE 1) + measureText(Tail(s))

\* part_003.wrapText: the test that keeps a word on the current line
Fits003(width, maxWidth) == width < maxWidth

\* wrapText, `currentLine = word`: the word that did not fit starts the
\* next line
StartLineMut(word) == <<>>

StartLine(word) == word

\* part_003.wrapText, from word k on
RECURSIVE WrapFrom003(_, _, _, _, _)
WrapFrom003(words, k, currentLine, lines, maxWidth) ==
    IF k > Len(words) THEN Append(lines, currentLine)
    ELSE IF Fits003(measureText(currentLine \o <<" ">> \o words[k]), maxWidth)
    THEN WrapFrom003(words, k + 1, currentLine \o <<" ">> \o words[k],
                     lines, maxWidth)
    ELSE WrapFrom003(words, k + 1, StartLine(words[k]),
                     Append(lines, currentLine), maxWidth)

\* utils.wrapText: the test that breaks the line before a word
BreaksUtils(width, maxWidth, currentLine) ==
    width > maxWidth /\ currentLine # <<>>

\* utils.wrapText, from word k on
RECURSIVE WrapFromUtils(_, _, _, _, _)
WrapFromUtils(words, k, currentLine, lines, maxWidth) ==
    IF k > Len(words)
    THEN IF currentLine # <<>> THEN Append(lines, currentLine) ELSE lines
    ELSE LET testLine == currentLine
                           \o (IF currentLine # <<>> THEN <<" ">> ELSE <<>>)
                           \o words[k]
         IN IF BreaksUtils(measureText(testLine), maxWidth, currentLine)
            THEN WrapFromUtils(words, k + 1, StartLine(words[k]),
                               Append(lines, currentLine), maxWidth)
            ELSE WrapFromUtils(words, k + 1, testLine, lines, maxWidth)

\* wrapText(text, maxWidth) of either renderer
wrapText(impl, text, maxWidth) ==
    LET words == Split(text, " ")
    IN IF impl = "part_003"
       THEN WrapFrom003(words, 2, words[1], <<>>, maxWidth)
       ELSE WrapFromUtils(words, 1, <<>>, <<>>, maxWidth)

-----------------------------------------------------------------------------
(* The canvas: the paint operations since it was last resized (log), the   *)
(* text state of its 2D context (ctx) and its width.  A text operation     *)
(* records the context state it was drawn with.                            *)

\* The context state after canvas.width is set.
DefaultCtx == [font |-> "10px sans-serif", fillStyle |-> "#000000",
               textAlign |-> "start", textBaseline |-> "alphabetic"]

\* A canvas just resized to width w.
Resized(w) == [log |-> <<>>, ctx |-> DefaultCtx, width |-> w]

\* A font or colour string the canvas does not parse, such as
\* 'bold undefinedpx Arial'.
Invalid == "invalid"

\* Assignments to ctx.font, ctx.fillStyle, ctx.textAlign, ctx.textBaseline:
\* the canvas ignores a value it does not parse.
SetStyle(g, s) ==
    [g EXCEPT !.ctx = [f \in DOMAIN g.ctx |->
                          IF f \in DOMAIN s /\ s[f] # Invalid
                          THEN s[f] ELSE g.ctx[f]]]

\* a + b and a * b of numbers
Plus(a, b) == IF a = NaN \/ b = NaN THEN NaN ELSE a + b

Times(a, b) == IF a = NaN \/ b = NaN THEN NaN ELSE a * b

\* currentY after n times `currentY += step`
Advance(y, n, step) == IF n = 0 THEN y ELSE Plus(y, Times(n, step))

\* fillRect, strokeRect, stroke, drawImage
Paint(g, name, arg, at) ==
    [g EXCEPT !.log = Append(@, OpAt(name, arg, at))]

\* ctx.fillText(text, x, y): nothing is painted at a y that is not a number
FillText(g, name, text, y) ==
    IF y = NaN THEN g
    ELSE [g EXCEPT !.log = Append(@, [op |-> name, arg |-> text, at |-> y,
                                      style |-> g.ctx])]

\* One fillText per line: line k at y0 advanced k - 1 times by step.
FillLines(g, lines, y0, step) ==
    [g EXCEPT !.log = @ \o SelectSeq([k \in 1..Len(lines) |->
                                         [op |-> "body", arg |-> lines[k],
                                          at |-> Advance(y0, k - 1, step),
                                          style |-> g.ctx]],
                                     LAMBDA o : o.at # NaN)]

\* The x of an image of width w placed 'left', 'right' or centred.
PositionX(position, canvasW, w) ==
    CASE position = "left" -> 50
      [] position = "right" -> canvasW - w - 50
      [] OTHER -> (canvasW - w) \div 2

-----------------------------------------------------------------------------
(* CertificateRenderer: the paint steps between two suspension points.     *)
(* Each operator yields the renderer's next state: the image load it is    *)
(* suspended on, or "resolved" with the value renderCertificate settles to.*)

Suspended(at, g) ==
    [rpc |-> at, canvas |-> g.log, ctx |-> g.ctx, width |-> g.width,
     rret |-> NoArtifact]

drawBorder(g) == Paint(Paint(g, "border", <<>>, 0), "inner-border", <<>>, 20)

\* part_003.drawTitle / utils.renderTitle
drawTitle(impl, g, c) ==
    IF impl = "part_003"
    THEN FillText(SetStyle(g, [font |-> "bold title", fillStyle |-> "title",
                               textAlign |-> "center",
                               textBaseline |-> "middle"]),
                  "title", c.template.titleText,
                  IF c.template.logoUrl THEN 180 ELSE 120)
    ELSE FillText(SetStyle(g, [font |-> "bold title", fillStyle |-> "title",
                               textAlign |-> "center",
                               textBaseline |-> "top"]),
                  "title", c.template.titleText, 80)

BodyStyle == [font |-> "body", fillStyle |-> "body"]

\* The font and colour set for the name, from participantNameSize and
\* participantNameColor.
NameStyle(t) ==
    IF t.participantNameSize = NaN
    THEN [font |-> Invalid, fillStyle |-> Invalid]
    ELSE [font |-> "bold name", fillStyle |-> "name"]

\* part_003: the course and grade lines under the body text
CourseAndGrade(g, p, courseY, gradeY) ==
    LET g1 == IF p.course # <<>>
              THEN FillText(SetStyle(g, [font |-> "italic body-4"]),
                            "course", p.course, courseY)
              ELSE g
    IN IF p.grade # <<>>
       THEN FillText(SetStyle(g1, [font |-> "bold body-2"]),
                     "grade", p.grade, gradeY)
       ELSE g1

\* part_003.drawBodyText
drawBodyText003(g, c) ==
    LET t == c.template
        p == c.participant
        step == t.bodySize + 10
        maxWidth == g.width - 100
        g1 == SetStyle(g, [font |-> "body", fillStyle |-> "body",
                           textAlign |-> "center"])
        bodyY == IF t.logoUrl THEN 280 ELSE 220
        parts == Split(t.bodyText, NameToken)
    IN IF Len(parts) = 2
       THEN LET beforeName == Trim(parts[1])
                afterName == Trim(parts[2])
                beforeLines == IF beforeName # <<>>
                               THEN wrapText("part_003", beforeName, maxWidth)
                               ELSE <<>>
                g2 == FillLines(g1, beforeLines, bodyY, step)
                nameY == bodyY + Len(beforeLines) * step
                g3 == FillText(SetStyle(g2, NameStyle(t)), "name", p.name,
                               nameY)
                afterY == Plus(nameY, Plus(t.participantNameSize, 15))
                afterLines == IF afterName # <<>>
                              THEN wrapText("part_003", afterName, maxWidth)
                              ELSE <<>>
                g4 == FillLines(SetStyle(g3, BodyStyle), afterLines, afterY,
                                step)
                finalBodyY == Plus(afterY, Len(afterLines) * step)
            IN CourseAndGrade(g4, p, Plus(finalBodyY, 30),
                              Plus(finalBodyY, IF p.course # <<>> THEN 60
                                               ELSE 30))
       ELSE LET fullText == Replace(t.bodyText, NameToken, p.name)
                lines == wrapText("part_003", fullText, maxWidth)
                g2 == FillLines(g1, lines, bodyY, step)
            IN CourseAndGrade(g2, p, bodyY + Len(lines) * step + 30,
                              bodyY + Len(lines) * step + 60)

\* size * 1.2, in whole units
LineStep(size) == IF size = NaN THEN NaN ELSE (size * 12) \div 10

\* utils: the size and colour renderCertificate passes for the body, read
\* from template.bodyTextSize and template.bodyTextColor, which no template
\* has.
BodyTextSize(t) == NaN

BodyStyleUtils == [font |-> Invalid, fillStyle |-> Invalid]

\* utils: `nameSize || size` and `nameColor || color`
NameStyleUtils(t) ==
    IF t.participantNameSize = NaN
    THEN [font |-> Invalid, fillStyle |-> Invalid]
    ELSE [font |-> "bold name", fillStyle |-> "name"]

\* utils.renderBodyText
renderBodyText(g, c) ==
    LET t == c.template
        participantName == c.participant.name
        size == BodyTextSize(t)
        nameSize == t.participantNameSize
        y == 250
        maxWidth == g.width - 100
        g1 == SetStyle(g, [textAlign |-> "center", textBaseline |-> "top"])
    IN IF Includes(t.bodyText, NameToken) /\ participantName # <<>>
       THEN LET parts == Split(t.bodyText, NameToken)
                before == Trim(parts[1])
                after == Trim(parts[2])
                beforeLines == IF before # <<>>
                               THEN wrapText("utils", before, maxWidth)
                               ELSE <<>>
                g2 == IF before # <<>>
                      THEN FillLines(SetStyle(g1, BodyStyleUtils),
                                     beforeLines, y, LineStep(size))
                      ELSE g1
                nameY == Advance(y, Len(beforeLines), LineStep(size))
                g3 == FillText(SetStyle(g2, NameStyleUtils(t)), "name",
                               participantName, nameY)
                afterY == Plus(nameY,
                               LineStep(IF nameSize # NaN THEN nameSize
                                        ELSE size))
            IN IF after # <<>>
               THEN FillLines(SetStyle(g3, BodyStyleUtils),
                              wrapText("utils", after, maxWidth), afterY,
                              LineStep(size))
               ELSE g3
       ELSE LET finalText == IF participantName # <<>>
                             THEN Replace(t.bodyText, NameToken,
                                          participantName)
                             ELSE t.bodyText
            IN FillLines(SetStyle(g1, BodyStyleUtils),
                         wrapText("utils", finalText, maxWidth), y,
                         LineStep(size))

drawBodyText(impl, g, c) ==
    IF impl = "part_003" THEN drawBodyText003(g, c) ELSE renderBodyText(g, c)

\* part_003.drawDate; the date text itself is not followed.
drawDate(g) ==
    FillText(SetStyle(g, [font |-> "16px Arial", fillStyle |-> "#333333",
                          textAlign |-> "center"]),
             "date", <<"Date: ">>, CanvasHeight - 30)

\* part_003: draw the date line and encode the canvas; utils: the promise
\* resolves with no value once the QR step is over.
FinishRender(impl, c, g) ==
    IF impl = "part_003"
    THEN [rpc |-> "resolved", canvas |-> drawDate(g).log,
          ctx |-> drawDate(g).ctx, width |-> g.width,
          rret |-> drawDate(g).log]
    ELSE [rpc |-> "resolved", canvas |-> g.log, ctx |-> g.ctx,
          width |-> g.width, rret |-> NoArtifact]

\* if (includeQR && qrCodeUrl) await drawQRCode / renderQRCode.  No code
\* sets template.includeQRCode, so the placeholder branch of utils is not
\* taken here.
AtQRCode(impl, c, g) ==
    IF c.includeQR /\ c.qrCodeUrl # NoValue
    THEN Suspended("qr", g)
    ELSE FinishRender(impl, c, g)

\* if (template.signatureUrl) await drawSignature / renderImage
AtSignature(impl, c, g) ==
    IF c.template.signatureUrl
    THEN Suspended("signature", g)
    ELSE AtQRCode(impl, c, g)

\* title and body, painted once the logo step is over
AfterLogo(impl, c, g) ==
    AtSignature(impl, c, drawBodyText(impl, drawTitle(impl, g, c), c))

\* if (template.logoUrl) await drawLogo / renderImage
AtLogoMut(impl, c, g) ==
    IF c.template.logoUrl
    THEN Suspended("logo", drawTitle(impl, g, c))
    ELSE AfterLogo(impl, c, g)

AtLogo(impl, c, g) ==
    IF c.template.logoUrl
    THEN Suspended("logo", g)
    ELSE AfterLogo(impl, c, g)

\* Setting canvas.width clears the canvas and resets its context; then the
\* background is filled.
Background(c) ==
    Paint(SetStyle(Resized(c.template.width), [fillStyle |-> "background"]),
          "background", <<>>, 0)

\* The synchronous head of renderCertificate.
BeginRender(impl, c) ==
    AtLogo(impl, c, IF impl = "part_003" THEN drawBorder(Background(c))
                                         ELSE Background(c))

\* this.currentTemplate = template
StoreTemplateMut(cur, t) == IF cur = <<>> THEN << t >> ELSE cur

StoreTemplate(cur, t) == << t >>

\* this.currentTemplate?.logoPosition || 'center'
getLogoPosition(cur) ==
    IF cur = <<>> THEN "center" ELSE cur[1].logoPosition

\* this.currentTemplate?.signaturePosition || 'right'
getSignaturePosition(cur) ==
    IF cur = <<>> THEN "right" ELSE cur[1].signaturePosition

\* img.onload of the three image steps.  part_003 places logo and signature
\* by the template the renderer stored, utils by the template of the call;
\* the images of utils are taken at their largest size.
ImageLoaded(impl, c, cur, at, g) ==
    CASE at = "logo" ->
           IF impl = "part_003"
           THEN Paint(g, "logo", <<>>,
                      PositionX(getLogoPosition(cur), g.width, 80))
           ELSE Paint(g, "logo", <<>>,
                      PositionX(c.template.logoPosition, g.width, 150))
      [] at = "signature" ->
           IF impl = "part_003"
           THEN LET x == PositionX(getSignaturePosition(cur), g.width, 150)
                IN FillText(SetStyle(Paint(Paint(g, "signature", <<>>, x),
                                           "signature-line", <<>>, x),
                                     [font |-> "12px Arial",
                                      fillStyle |-> "#000000",
                                      textAlign |-> "center"]),
                            "signature-label", <<"Authorized Signature">>,
                            CanvasHeight - 60 - 80 + 60 + 25)
           ELSE Paint(g, "signature", <<>>,
                      PositionX(c.template.signaturePosition, g.width, 150))
      [] OTHER ->
           IF impl = "part_003"
           THEN FillText(SetStyle(Paint(g, "qr", c.qrCodeUrl, 50),
                                  [font |-> "10px Arial",
                                   fillStyle |-> "#666666",
                                   textAlign |-> "center"]),
                         "qr-label", <<"Scan to verify">>,
                         CanvasHeight - 100 - 50 + 100 + 15)
           ELSE Paint(g, "qr", c.qrCodeUrl, g.width - 80 - 20)

\* img.onerror of every image step calls resolve().
onerrorMut == "reject"

onerror == "resolve"

\* What img.onerror of the QR image paints: nothing in part_003, the
\* placeholder box in utils.
QROnError(impl, g) ==
    IF impl = "part_003" THEN g
    ELSE FillText(SetStyle(Paint(g, "qr-placeholder", <<>>,
                                 g.width - 80 - 20),
                           [fillStyle |-> "#ffffff",
                            font |-> "12px Arial, sans-serif",
                            textAlign |-> "center"]),
                  "qr-placeholder-text", <<"QR">>, CanvasHeight - 80 - 20 + 40)

\* The canvas once the image step `at` has settled.
ImageSettled(impl, c, cur, at, loaded, g) ==
    IF loaded THEN ImageLoaded(impl, c, cur, at, g)
    ELSE IF at = "qr" THEN QROnError(impl, g)
    ELSE g

\* The steps that follow the image step `at`, up to the next suspension.
Continue(impl, c, at, g) ==
    CASE at = "logo" -> AfterLogo(impl, c, g)
      [] at = "signature" -> AtQRCode(impl, c, g)
      [] OTHER -> FinishRender(impl, c, g)

\* The canvas of the renderer followed by the render variables.
Surface == [log |-> canvas, ctx |-> ctx, width |-> canvasWidth]

\* The renderer moves to `next`, unless a drawing primitive of the segment
\* throws (only a segment that paints can) or the promise of the image step
\* was rejected.
RenderStep(next, throws, rejects, g) ==
    /\ throws => next.canvas # g.log
    /\ rpc' = IF throws \/ rejects THEN "rejected" ELSE next.rpc
    /\ canvas' = IF throws \/ rejects THEN g.log ELSE next.canvas
    /\ ctx' = IF throws \/ rejects THEN g.ctx ELSE next.ctx
    /\ canvasWidth' = g.width
    /\ rret' = IF throws \/ rejects THEN NoArtifact ELSE next.rret
    /\ primitiveFailed' = (primitiveFailed \/ throws)

\* renderer.renderCertificate(c), up to the first suspension point, on a
\* renderer whose stored template is cur.
renderCertificate(cur, c, throws) ==
    /\ cfg' = c
    /\ currentTemplate' = IF rendererImpl = "part_003"
                          THEN StoreTemplate(cur, c.template)
                          ELSE cur
    /\ loadFailed' = {}
    /\ rpc' = IF throws THEN "rejected" ELSE BeginRender(rendererImpl, c).rpc
    /\ canvas' = IF throws THEN Background(c).log
                 ELSE BeginRender(rendererImpl, c).canvas
    /\ ctx' = IF throws THEN Background(c).ctx
              ELSE BeginRender(rendererImpl, c).ctx
    /\ canvasWidth' = c.template.width
    /\ rret' = IF throws THEN NoArtifact
               ELSE BeginRender(rendererImpl, c).rret
    /\ primitiveFailed' = throws

\* An image loads or fails to load; the render goes on to the next
\* suspension point.
ImageSettles(at, loaded, throws) ==
    /\ rpc = at
    /\ LET g == ImageSettled(rendererImpl, cfg, currentTemplate, at, loaded,
                             Surface)
       IN RenderStep(Continue(rendererImpl, cfg, at, g), throws,
                     ~loaded /\ onerror = "reject", g)
    /\ loadFailed' = IF loaded THEN loadFailed ELSE loadFailed \cup {at}
    /\ UNCHANGED << cfg, currentTemplate >>

LogoSettles(loaded, throws) == ImageSettles("logo", loaded, throws)

SignatureSettles(loaded, throws) == ImageSettles("signature", loaded, throws)

QRImageSettles(loaded, throws) == ImageSettles("qr", loaded, throws)

-----------------------------------------------------------------------------
(* QRCodeGenerator.generateBatchQRCodes *)

\* Whether the promise of one id fulfils: the try/catch around the
\* generation makes it fulfil whether or not the generation failed (ok).
PerIdFulfilsMut(ok) == ok

PerIdFulfils(ok) == TRUE

\* await Promise.all(promises) resumes once every promise has fulfilled.
PromiseAllResolvesMut(pending) == TRUE

PromiseAllResolves(pending) == pending = {}

\* participantIds.map(async id => ...): one promise per id, each suspended
\* in QRCode.toDataURL.
StartQRCodes ==
    /\ qrPending' = 1..N
    /\ qrMap' = EmptyMap
    /\ qrRejected' = FALSE
    /\ qrFailedIds' = {}

\* The generation for the id of record k settles: qrCodes.set(id, qrCode) on
\* success, console.error on failure.  Promise.all rejects with the first
\* rejected promise.
QRSettles(k, ok) ==
    /\ k \in qrPending
    /\ qrPending' = qrPending \ {k}
    /\ qrMap' = IF ok
                THEN MapSet(qrMap, participants[k].id,
                            generateVerificationQR(participants[k].id))
                ELSE qrMap
    /\ qrRejected' = (qrRejected \/ ~PerIdFulfils(ok))
    /\ qrFailedIds' = IF ok THEN qrFailedIds
                      ELSE qrFailedIds \cup {participants[k].id}
    /\ UNCHANGED << propVars, tabVars, batchVars, renderVars, previewVars >>

-----------------------------------------------------------------------------
(* BatchCertificateGenerator.generateBatchCertificates *)

\* for (let i = 0; ...; i++), on the 1-based index of the model
NextIndexMut(k) == k + 2

NextIndex(k) == k + 1

\* catch of the per-record try: errors.push(`Failed to generate certificate
\* for ${participant.name}`)
PushRecordErrorDrop(errs, name) == errs

PushRecordErrorFront(errs, name) == <<CertError(name)>> \o errs

PushRecordError(errs, name) == Append(errs, CertError(name))

\* The button is enabled when !isGenerating and there are participants.
\* A new JSZip, a new canvas and a new CertificateRenderer on it are made;
\* the constructor throws when the canvas gives no 2D context, ahead of the
\* try, and the call ends there with the generating flag set.
StartBatch(constructed) ==
    /\ activeTab = "batch"
    /\ ~isGenerating
    /\ \/ pc \in {"idle", "done", "crashed"} /\ rpc = "idle"
       \/ pc \in {"qr", "loop", "render"} /\ Len(orphaned) < MaxRuns - 1
    /\ N # 0
    /\ orphaned' = IF pc \in {"idle", "done", "crashed"} THEN orphaned
                   ELSE Append(orphaned, [total |-> N])
    /\ isGenerating' = TRUE
    /\ progress' = [current |-> 0, total |-> N,
                    currentParticipant |-> <<>>, errors |-> <<>>]
    /\ zip' = EmptyMap
    /\ errors' = <<>>
    /\ qrCodes' = NullMap
    /\ i' = 1
    /\ rpc' = "idle"
    /\ cfg' = NoConfig
    /\ canvas' = <<>>
    /\ ctx' = DefaultCtx
    /\ canvasWidth' = 300
    /\ currentTemplate' = <<>>
    /\ rret' = NoArtifact
    /\ loadFailed' = {}
    /\ primitiveFailed' = FALSE
    /\ attempted' = <<>>
    /\ outcomes' = <<>>
    /\ downloaded' = FALSE
    /\ archiveFailed' = FALSE
    /\ notifications' = <<>>
    /\ runTemplate' = template
    /\ runIncludeQR' = includeQR
    /\ attached' = TRUE
    /\ editedInFlight' = FALSE
    /\ IF ~constructed
       THEN UNCHANGED qrVars /\ pc' = "crashed"
       ELSE IF includeQR
            THEN StartQRCodes /\ pc' = "qr"
            ELSE UNCHANGED qrVars /\ pc' = "loop"
    /\ UNCHANGED << propVars, activeTab, previousTemplate, inflight,
                    textVars, csvVars, appQRVars, previewVars >>

\* await QRCodeGenerator.generateBatchQRCodes(...) returns, or throws into
\* the catch that records the aggregate error.
AwaitQRCodes ==
    /\ pc = "qr"
    /\ qrRejected \/ PromiseAllResolves(qrPending)
    /\ IF qrRejected
       THEN /\ errors' = Append(errors, QRError)
            /\ qrCodes' = NullMap
       ELSE /\ qrCodes' = [null |-> FALSE, map |-> qrMap]
            /\ UNCHANGED errors
    /\ pc' = "loop"
    /\ UNCHANGED << propVars, tabVars, i, zip, isGenerating, progress, attempted,
                    outcomes, downloaded, archiveFailed, notifications,
                    runTemplate, runIncludeQR, qrVars, renderVars,
                    previewVars >>

\* qrCodes?.get(participant.id)
QRCodeFor(p) ==
    IF ~qrCodes.null /\ MapHas(qrCodes.map, p.id)
    THEN MapGet(qrCodes.map, p.id)
    ELSE NoValue

\* generateBatchCertificates is a useCallback closure over the props of the
\* render in which it was made: a running call reads the values it closed
\* over, not the props of a later render.
CapturedMut(atStart, current) == current

Captured(atStart, current) == atStart

\* The config built for record k.
ConfigFor(k) ==
    [template |-> Captured(runTemplate, template),
     participant |-> participants[k],
     qrCodeUrl |-> QRCodeFor(participants[k]),
     includeQR |-> Captured(runIncludeQR, includeQR) /\ ~qrCodes.null
                     /\ MapHas(qrCodes.map, participants[k].id)]

\* setProgress(prev => ({...prev, current: i + 1, currentParticipant:
\* participant.name})), on the 1-based index of the model
ProgressAtMut(prev, k, name) ==
    [prev EXCEPT !.current = k - 1, !.currentParticipant = name]

ProgressAt(prev, k, name) ==
    [prev EXCEPT !.current = k, !.currentParticipant = name]

\* Top of the loop body: setProgress, build the config, call the renderer.
BeginRecord(throws) ==
    /\ pc = "loop"
    /\ i <= N
    /\ IF attached
       THEN /\ progress' = ProgressAt(progress, i, participants[i].name)
            /\ notifications' =
                  Append(notifications,
                         [current |-> progress'.current,
                          total |-> progress'.total,
                          currentParticipant |-> progress'.currentParticipant,
                          processed |-> Len(outcomes)])
       ELSE UNCHANGED << progress, notifications >>
    /\ attempted' = Append(attempted, i)
    /\ renderCertificate(currentTemplate, ConfigFor(i), throws)
    /\ pc' = "render"
    /\ UNCHANGED << propVars, tabVars, i, errors, qrCodes, zip, isGenerating,
                    outcomes, downloaded, archiveFailed, runTemplate,
                    runIncludeQR, qrVars, previewVars >>

\* The outcome of record i is recorded and the loop moves on.
RecordOutcome(ok, artifact) ==
    /\ outcomes' = Append(outcomes,
                      [index |-> i, ok |-> ok,
                       artifact |-> IF ok THEN artifact ELSE NoArtifact,
                       template |-> cfg.template,
                       includeQR |-> cfg.includeQR,
                       qrCodeUrl |-> cfg.qrCodeUrl])
    /\ IF ok
       THEN /\ zip' = MapSet(zip, FileName(participants[i].name), artifact)
            /\ UNCHANGED errors
       ELSE /\ errors' = PushRecordError(errors, participants[i].name)
            /\ UNCHANGED zip
    /\ i' = NextIndex(i)
    /\ pc' = "loop"
    /\ rpc' = "idle"
    /\ rret' = NoArtifact
    /\ loadFailed' = {}
    /\ primitiveFailed' = FALSE
    /\ UNCHANGED << propVars, tabVars, qrCodes, isGenerating, progress, attempted,
                    downloaded, archiveFailed, notifications, runTemplate,
                    runIncludeQR, qrVars, cfg, canvas, ctx, canvasWidth,
                    currentTemplate, previewVars >>

\* renderCertificate resolved: fetch the data URL, take the blob and add it
\* to the zip; any of the three may fail (packaged = FALSE).
PackageRecord(packaged) ==
    /\ pc = "render"
    /\ rpc = "resolved"
    /\ RecordOutcome(packaged, rret)

\* renderCertificate rejected: the per-record catch.
RenderRejected ==
    /\ pc = "render"
    /\ rpc = "rejected"
    /\ RecordOutcome(FALSE, NoArtifact)

\* The outer catch: errors: [...prev.errors, 'Batch generation failed']
BatchFailureErrorsMut(prevErrors) == prevErrors

BatchFailureErrors(prevErrors) == Append(prevErrors, BatchError)

\* After the loop: zip.generateAsync and the download, or the outer catch;
\* then finally.
FinishBatch(zipped) ==
    /\ pc = "loop"
    /\ i > N
    /\ downloaded' = zipped
    /\ archiveFailed' = ~zipped
    /\ IF attached
       THEN /\ progress' = [progress EXCEPT
                              !.errors = IF zipped THEN errors
                                         ELSE BatchFailureErrors(@)]
            /\ isGenerating' = FALSE
       ELSE UNCHANGED << progress, isGenerating >>
    /\ pc' = "done"
    /\ UNCHANGED << propVars, tabVars, i, errors, qrCodes, zip, attempted, outcomes,
                    notifications, runTemplate, runIncludeQR, qrVars,
                    renderVars, previewVars >>

\* A render step of the batch's renderer.
BatchLogoSettles(loaded, throws) ==
    /\ pc = "render"
    /\ LogoSettles(loaded, throws)
    /\ UNCHANGED << propVars, tabVars, batchVars, qrVars, previewVars >>

BatchSignatureSettles(loaded, throws) ==
    /\ pc = "render"
    /\ SignatureSettles(loaded, throws)
    /\ UNCHANGED << propVars, tabVars, batchVars, qrVars, previewVars >>

BatchQRImageSettles(loaded, throws) ==
    /\ pc = "render"
    /\ QRImageSettles(loaded, throws)
    /\ UNCHANGED << propVars, tabVars, batchVars, qrVars, previewVars >>

\* The success message is shown when
\* !isGenerating && progress.current > 0 && progress.current === total.
SuccessBanner ==
    /\ ~isGenerating
    /\ progress.current > 0
    /\ progress.current = progress.total

\* "Successfully generated {progress.current - progress.errors.length}
\* certificates"
ReportedSuccess == progress.current - Len(progress.errors)

-----------------------------------------------------------------------------
(* CertificatePreview.renderCertificate, run by the effect on config.  One *)
(* render at a time is followed here.                                      *)

PreviewRender(throws) ==
    /\ pc = "idle"
    /\ rpc = "idle"
    /\ isRendering' = TRUE
    /\ renderCertificate(<<>>, previewConfig, throws)
    /\ UNCHANGED << propVars, tabVars, batchVars, qrVars, previewConfig, previewUrl >>

PreviewLogoSettles(loaded, throws) ==
    /\ isRendering
    /\ LogoSettles(loaded, throws)
    /\ UNCHANGED << propVars, tabVars, batchVars, qrVars, previewVars >>

PreviewSignatureSettles(loaded, throws) ==
    /\ isRendering
    /\ SignatureSettles(loaded, throws)
    /\ UNCHANGED << propVars, tabVars, batchVars, qrVars, previewVars >>

PreviewQRImageSettles(loaded, throws) ==
    /\ isRendering
    /\ QRImageSettles(loaded, throws)
    /\ UNCHANGED << propVars, tabVars, batchVars, qrVars, previewVars >>

\* setPreviewUrl(dataUrl) or the catch; finally setIsRendering(false).
PreviewDone ==
    /\ isRendering
    /\ rpc \in {"resolved", "rejected"}
    /\ previewUrl' = IF rpc = "resolved" THEN rret ELSE previewUrl
    /\ isRendering' = FALSE
    /\ rpc' = "idle"
    /\ rret' = NoArtifact
    /\ UNCHANGED << propVars, tabVars, batchVars, qrVars, previewConfig,
                    cfg, canvas, ctx, canvasWidth, currentTemplate,
                    loadFailed, primitiveFailed >>

-----------------------------------------------------------------------------
(* The batch view *)

InitProps ==
    /\ \E n \in 1..MaxRecords : \E names \in [1..n -> Names] :
           participants = [k \in 1..n |-> ParticipantOf(k, names[k])]
    /\ template \in DefaultTemplates
    /\ includeQR \in BOOLEAN

InitIdle ==
    /\ pc = "idle"
    /\ i = 1
    /\ errors = <<>>
    /\ qrCodes = NullMap
    /\ zip = EmptyMap
    /\ isGenerating = FALSE
    /\ progress = NoProgress
    /\ qrPending = {}
    /\ qrMap = EmptyMap
    /\ qrRejected = FALSE
    /\ qrFailedIds = {}
    /\ rpc = "idle"
    /\ cfg = NoConfig
    /\ canvas = <<>>
    /\ ctx = DefaultCtx
    /\ canvasWidth = 300
    /\ currentTemplate = <<>>
    /\ rret = NoArtifact
    /\ previewUrl = NoArtifact
    /\ isRendering = FALSE
    /\ attempted = <<>>
    /\ outcomes = <<>>
    /\ downloaded = FALSE
    /\ archiveFailed = FALSE
    /\ notifications = <<>>
    /\ runTemplate = template
    /\ runIncludeQR = includeQR
    /\ attached = (activeTab = "batch")
    /\ editedInFlight = FALSE
    /\ previousTemplate = <<>>
    /\ inflight = <<>>
    /\ orphaned = <<>>
    /\ bodyDrawn = <<>>
    /\ wrapLines = <<>>
    /\ loadFailed = {}
    /\ primitiveFailed = FALSE

\* What parseCSVFile has resolved with before it is called: nothing.
NoResult == [participants |-> <<>>, errors |-> <<>>, totalRows |-> 0]

\* No text function and no import is being followed.
NoText ==
    /\ wrapInput = <<>>
    /\ wrapWidth = 0
    /\ textPc = "none"
    /\ csvFile = "none"
    /\ csvRows = <<>>
    /\ csvResult = NoResult
    /\ csvPc = "none"

\* App's sampleParticipant, shown until a file is imported.
sampleParticipant ==
    [id |-> "sample", name |-> <<"c">>, course |-> <<"k">>, grade |-> <<"g">>]

\* The QR code of the preview is not followed: the state of a mounted App
\* whose effect has generated nothing.
NoPreviewQR ==
    /\ selectedParticipant = sampleParticipant
    /\ qrCodeUrl = <<>>
    /\ qrGenerations = <<>>

Init ==
    /\ InitProps
    /\ NoText
    /\ rendererImpl = "part_003"
    /\ previewConfig = NoConfig
    /\ activeTab = "batch"
    /\ NoPreviewQR
    /\ InitIdle

Next ==
    \/ \E constructed \in BOOLEAN : StartBatch(constructed)
    \/ \E k \in 1..MaxRecords, ok \in BOOLEAN : QRSettles(k, ok)
    \/ AwaitQRCodes
    \/ \E throws \in BOOLEAN : BeginRecord(throws)
    \/ \E loaded \in BOOLEAN, throws \in BOOLEAN :
           BatchLogoSettles(loaded, throws)
    \/ \E loaded \in BOOLEAN, throws \in BOOLEAN :
           BatchSignatureSettles(loaded, throws)
    \/ \E loaded \in BOOLEAN, throws \in BOOLEAN :
           BatchQRImageSettles(loaded, throws)
    \/ \E packaged \in BOOLEAN : PackageRecord(packaged)
    \/ RenderRejected
    \/ \E zipped \in BOOLEAN : FinishBatch(zipped)

Spec == Init /\ [][Next]_vars

-----------------------------------------------------------------------------
(* The preview view, with either renderer.  The config shows one of the    *)
(* participants; its QR URL is empty or the QR image of a participant.     *)

InitRender ==
    /\ InitProps
    /\ rendererImpl \in {"part_003", "utils"}
    /\ \E k \in 1..N :
       \E url \in {NoValue} \cup
                  {generateVerificationQR(participants[j].id) : j \in 1..N} :
           previewConfig = [template |-> template,
                            participant |-> participants[k],
                            qrCodeUrl |-> url,
                            includeQR |-> includeQR]
    /\ activeTab = "preview"
    /\ NoText
    /\ NoPreviewQR
    /\ InitIdle

NextRender ==
    \/ \E throws \in BOOLEAN : PreviewRender(throws)
    \/ \E loaded \in BOOLEAN, throws \in BOOLEAN :
           PreviewLogoSettles(loaded, throws)
    \/ \E loaded \in BOOLEAN, throws \in BOOLEAN :
           PreviewSignatureSettles(loaded, throws)
    \/ \E loaded \in BOOLEAN, throws \in BOOLEAN :
           PreviewQRImageSettles(loaded, throws)
    \/ PreviewDone

SpecRender == InitRender /\ [][NextRender]_vars

-----------------------------------------------------------------------------
(* App: the tabs and the settings of the preview, around a batch.  Leaving  *)
(* the batch tab unmounts BatchCertificateGenerator: its state is dropped  *)
(* and the state updates of a call still running have no effect, but the   *)
(* call goes on.  A second call started while an earlier one is still      *)
(* running is not followed here.                                           *)

\* A run of generateBatchCertificates has started and is not over.
InFlight == pc \notin {"idle", "done", "crashed"}

\* The batch view was left while its run was in flight.
Abandoned == InFlight /\ ~attached

\* onClick={() => setActiveTab(tab)}
SwitchTab(tab) ==
    /\ tab # activeTab
    /\ N # 0 \/ tab = "upload"
    /\ activeTab' = tab
    /\ IF activeTab = "batch"
       THEN /\ attached' = FALSE
            /\ isGenerating' = FALSE
            /\ progress' = NoProgress
       ELSE UNCHANGED << attached, isGenerating, progress >>
    /\ UNCHANGED << propVars, editedInFlight, previousTemplate, inflight, orphaned,
                    textVars, csvVars, appQRVars, pc, i,
                    errors, qrCodes, zip,
                    attempted, outcomes, downloaded, archiveFailed,
                    notifications, runTemplate, runIncludeQR, qrVars,
                    renderVars, previewVars >>

RemoveAt(seq, k) == SubSeq(seq, 1, k - 1) \o SubSeq(seq, k + 1, Len(seq))

\* A run that is no longer followed processes its remaining records and
\* ends: its state updates go to the view that is gone, its archive is
\* downloaded.
OrphanEnds(k) ==
    /\ k \in 1..Len(orphaned)
    /\ orphaned' = RemoveAt(orphaned, k)
    /\ UNCHANGED << propVars, activeTab, attached, editedInFlight,
                    previousTemplate, inflight, textVars, csvVars, appQRVars,
                    batchVars, qrVars, renderVars, previewVars >>

\* handleTemplateChange('titleText', value), then App.handleConfigChange
EditTemplate(title) ==
    /\ activeTab = "preview"
    /\ title # template.titleText
    /\ template' = [template EXCEPT !.titleText = title]
    /\ editedInFlight' = (editedInFlight \/ InFlight)
    /\ UNCHANGED << participants, includeQR, rendererImpl, activeTab,
                    attached, previousTemplate, inflight, orphaned, textVars, csvVars, appQRVars,
                    batchVars, qrVars,
                    renderVars, previewVars >>

\* The includeQR checkbox, then App.handleConfigChange
ToggleIncludeQR ==
    /\ activeTab = "preview"
    /\ includeQR' = ~includeQR
    /\ editedInFlight' = (editedInFlight \/ InFlight)
    /\ UNCHANGED << participants, template, rendererImpl, activeTab,
                    attached, previousTemplate, inflight, orphaned, textVars, csvVars, appQRVars,
                    batchVars, qrVars,
                    renderVars, previewVars >>

\* After an upload the App shows the preview tab; its template is
\* defaultTemplate, which has no logo and no signature image (no view sets
\* one), and includeQR starts as true.
InitTabs ==
    /\ \E n \in 1..MaxRecords :
           participants = [k \in 1..n |-> ParticipantOf(k, <<"c">>)]
    /\ template \in {t \in DefaultTemplates :
                          ~t.logoUrl /\ ~t.signatureUrl}
    /\ includeQR = TRUE
    /\ rendererImpl = "part_003"
    /\ previewConfig = NoConfig
    /\ activeTab = "preview"
    /\ NoText
    /\ NoPreviewQR
    /\ InitIdle

NextTabs ==
    \/ \E constructed \in BOOLEAN : StartBatch(constructed)
    \/ \E k \in 1..MaxRecords, ok \in BOOLEAN : QRSettles(k, ok)
    \/ AwaitQRCodes
    \/ \E throws \in BOOLEAN : BeginRecord(throws)
    \/ \E loaded \in BOOLEAN, throws \in BOOLEAN :
           BatchQRImageSettles(loaded, throws)
    \/ \E packaged \in BOOLEAN : PackageRecord(packaged)
    \/ RenderRejected
    \/ \E zipped \in BOOLEAN : FinishBatch(zipped)
    \/ \E tab \in {"upload", "preview", "batch"} : SwitchTab(tab)
    \/ \E k \in 1..(MaxRuns - 1) : OrphanEnds(k)
    \/ \E title \in TitleTexts : EditTemplate(title)
    \/ ToggleIncludeQR

SpecTabs == InitTabs /\ [][NextTabs]_vars

-----------------------------------------------------------------------------
(* CertificatePreview with every run of its effect followed.  The effect   *)
(* runs renderCertificate on each new config object, whether or not an     *)
(* earlier call is still suspended on an image load; every call makes its  *)
(* own renderer on the one canvas of canvasRef.                            *)

\* The configs App can pass: defaultTemplate with either title, the first
\* participant, no QR URL or that of the participant, includeQR on or off.
PreviewConfigs ==
    [template : {t \in Templates : /\ ~t.logoUrl /\ ~t.signatureUrl
                                  /\ t.logoPosition = "center"
                                  /\ t.signaturePosition = "right"
                                  /\ t.participantNameSize = NaN},
     participant : {participants[1]},
     qrCodeUrl : {NoValue, generateVerificationQR(participants[1].id)},
     includeQR : BOOLEAN]

\* App renders with a new config: the effect calls renderCertificate, which
\* runs up to its first image load.
ConfigChanges(c, throws) ==
    /\ activeTab = "preview"
    /\ c # previewConfig
    /\ Len(inflight) < MaxInFlight
    /\ previewConfig' = c
    /\ LET head == Background(c)
           next == BeginRender(rendererImpl, c)
       IN /\ canvas' = IF throws THEN head.log ELSE next.canvas
          /\ ctx' = IF throws THEN head.ctx ELSE next.ctx
          /\ canvasWidth' = head.width
          /\ inflight' = IF throws \/ next.rpc = "resolved" THEN inflight
                         ELSE Append(inflight,
                                     [rpc |-> next.rpc, cfg |-> c,
                                      cur |-> IF rendererImpl = "part_003"
                                              THEN StoreTemplate(<<>>,
                                                                 c.template)
                                              ELSE <<>>])
          /\ previewUrl' = IF ~throws /\ next.rpc = "resolved"
                           THEN next.rret ELSE previewUrl
          /\ isRendering' = ~(throws \/ next.rpc = "resolved")
    /\ UNCHANGED << propVars, activeTab, attached, editedInFlight,
                    previousTemplate, orphaned, textVars, csvVars, appQRVars,
                    batchVars, qrVars,
                    rpc, cfg, rret, currentTemplate, loadFailed,
                    primitiveFailed >>

\* The image that suspended call k is waiting for loads or fails to load;
\* the call paints on the canvas as it is now and goes on.
InflightSettles(k, loaded, throws) ==
    /\ k \in 1..Len(inflight)
    /\ LET p == inflight[k]
           g == ImageSettled(rendererImpl, p.cfg, p.cur, p.rpc, loaded,
                             Surface)
           next == Continue(rendererImpl, p.cfg, p.rpc, g)
           failed == throws \/ (~loaded /\ onerror = "reject")
       IN /\ throws => next.canvas # g.log
          /\ canvas' = IF failed THEN g.log ELSE next.canvas
          /\ ctx' = IF failed THEN g.ctx ELSE next.ctx
          /\ inflight' = IF failed \/ next.rpc = "resolved"
                         THEN RemoveAt(inflight, k)
                         ELSE [inflight EXCEPT ![k].rpc = next.rpc]
          /\ previewUrl' = IF ~failed /\ next.rpc = "resolved"
                           THEN next.rret ELSE previewUrl
          /\ isRendering' = IF failed \/ next.rpc = "resolved" THEN FALSE
                            ELSE isRendering
    /\ UNCHANGED << propVars, activeTab, attached, editedInFlight,
                    previousTemplate, orphaned, textVars, csvVars, appQRVars,
                    batchVars, qrVars,
                    previewConfig, rpc, cfg, rret, canvasWidth,
                    currentTemplate, loadFailed, primitiveFailed >>

InitPreview ==
    /\ participants = << ParticipantOf(1, <<"c">>) >>
    /\ template \in {t \in DefaultTemplates : ~t.logoUrl /\ ~t.signatureUrl}
    /\ includeQR = TRUE
    /\ rendererImpl \in {"part_003", "utils"}
    /\ previewConfig = NoConfig
    /\ activeTab = "preview"
    /\ NoText
    /\ NoPreviewQR
    /\ InitIdle

NextPreview ==
    \/ \E c \in PreviewConfigs, throws \in BOOLEAN : ConfigChanges(c, throws)
    \/ \E k \in 1..MaxInFlight, loaded \in BOOLEAN, throws \in BOOLEAN :
           InflightSettles(k, loaded, throws)

SpecPreview == InitPreview /\ [][NextPreview]_vars

-----------------------------------------------------------------------------
(* One CertificateRenderer, of either implementation, called again and     *)
(* again on the same canvas with any config, each call made once the call  *)
(* before it has settled.                                                  *)

\* The configs of the calls: one participant, with or without logo,
\* signature and QR image, the two images placed in one of three ways.
ReuseConfigs ==
    [template : {t \in Templates :
                    /\ t.titleText = DefaultTitle
                    /\ << t.logoPosition, t.signaturePosition >> \in
                           { <<"center", "right">>, <<"left", "left">>,
                             <<"right", "center">> }},
     participant : {ParticipantOf(1, <<"c">>)},
     qrCodeUrl : {NoValue, generateVerificationQR("1")},
     includeQR : {TRUE}]

ReuseRender(c, throws) ==
    /\ rpc \in {"idle", "resolved", "rejected"}
    /\ previousTemplate' = IF rpc = "idle" THEN previousTemplate
                           ELSE << cfg.template >>
    /\ renderCertificate(currentTemplate, c, throws)
    /\ UNCHANGED << propVars, activeTab, attached, editedInFlight, inflight, orphaned,
                    textVars, csvVars, appQRVars, batchVars, qrVars, previewVars >>

ReuseImageSettles(at, loaded, throws) ==
    /\ ImageSettles(at, loaded, throws)
    /\ UNCHANGED << propVars, tabVars, batchVars, qrVars, previewVars >>

InitReuse ==
    /\ participants = << ParticipantOf(1, <<"c">>) >>
    /\ template \in {t \in DefaultTemplates : ~t.logoUrl /\ ~t.signatureUrl}
    /\ includeQR = TRUE
    /\ rendererImpl \in {"part_003", "utils"}
    /\ previewConfig = NoConfig
    /\ activeTab = "upload"
    /\ NoText
    /\ NoPreviewQR
    /\ InitIdle

NextReuse ==
    \/ \E c \in ReuseConfigs, throws \in BOOLEAN : ReuseRender(c, throws)
    \/ \E at \in {"logo", "signature", "qr"}, loaded \in BOOLEAN,
          throws \in BOOLEAN : ReuseImageSettles(at, loaded, throws)

SpecReuse == InitReuse /\ [][NextReuse]_vars

-----------------------------------------------------------------------------
(* The text functions on their own: wrapText with any text and width, then *)
(* drawBodyText / renderBodyText with that text as the template's body     *)
(* text on a canvas 100 wider than that width.                             *)

Symbols == {"a", "b", " ", NameToken}

Texts == UNION { [1..n -> Symbols] : n \in 0..MaxTextLen }

\* The config whose body text is the text given.
TextConfig ==
    [template |-> [logoUrl |-> FALSE, signatureUrl |-> FALSE,
                   titleText |-> DefaultTitle,
                   logoPosition |-> "center", signaturePosition |-> "right",
                   bodyText |-> wrapInput, bodySize |-> 18,
                   participantNameSize |-> template.participantNameSize,
                   width |-> wrapWidth + 100],
     participant |-> participants[1],
     qrCodeUrl |-> NoValue, includeQR |-> FALSE]

CallWrapText ==
    /\ textPc = "input"
    /\ wrapLines' = wrapText(rendererImpl, wrapInput, wrapWidth)
    /\ textPc' = "wrapped"
    /\ UNCHANGED << propVars, activeTab, attached, editedInFlight,
                    previousTemplate, inflight, orphaned, wrapInput, wrapWidth,
                    bodyDrawn, csvVars, appQRVars, batchVars, qrVars, renderVars, previewVars >>

CallDrawBodyText ==
    /\ textPc = "wrapped"
    /\ bodyDrawn' = drawBodyText(rendererImpl,
                                 Resized(TextConfig.template.width),
                                 TextConfig).log
    /\ textPc' = "drawn"
    /\ UNCHANGED << propVars, activeTab, attached, editedInFlight,
                    previousTemplate, inflight, orphaned, wrapInput, wrapWidth,
                    wrapLines, csvVars, appQRVars, batchVars, qrVars, renderVars, previewVars >>

InitText ==
    /\ \E name \in {<<"c">>, <<>>}, course \in {<<>>, <<"k">>},
          grade \in {<<>>, <<"g">>} :
           /\ name = <<>> => (course = <<>> /\ grade = <<>>)
           /\ participants = << [id |-> "1", name |-> name,
                                 course |-> course, grade |-> grade] >>
    /\ template \in {t \in Templates : /\ ~t.logoUrl /\ ~t.signatureUrl
                                       /\ t.titleText = DefaultTitle
                                       /\ t.logoPosition = "center"
                                       /\ t.signaturePosition = "right"}
    /\ includeQR = TRUE
    /\ rendererImpl \in {"part_003", "utils"}
    /\ previewConfig = NoConfig
    /\ activeTab = "upload"
    /\ wrapInput \in Texts
    /\ wrapWidth \in 0..MaxWidth
    /\ textPc = "input"
    /\ csvFile = "none"
    /\ csvRows = <<>>
    /\ csvResult = NoResult
    /\ csvPc = "none"
    /\ NoPreviewQR
    /\ InitIdle

NextText == CallWrapText \/ CallDrawBodyText

SpecText == InitText /\ [][NextText]_vars

-----------------------------------------------------------------------------
(* The CSV import (csvParser.ts).  A row is what Papa.parse hands over for *)
(* one line: every field a string, or absent when the file has no such     *)
(* column.  Dates are taken as whole values: one that Date parses, one     *)
(* that it does not.                                                       *)

\* row.name when the file has no name column
Missing == <<"undefined">>

RawNames == { Missing, <<" ">>, <<"a">>, <<" ", "a", " ">>, <<"<", ">">>,
              <<"<", " ", "a">> }

RawEmails == { <<>>, <<"e", "@", "d", ".", "c">>, <<"<", "e", "@">> }

ValidDate == <<"2024-01-15">>

RawDates == { <<>>, ValidDate, <<"soon">> }

RawCourses == { <<>>, <<" ", "<", "k", ">">> }

\* The rows a file may hold: every name with no other field, and every
\* combination of the other fields with two of the names.
Rows ==
    { [name |-> n, email |-> <<>>, course |-> <<>>, date |-> <<>>,
       grade |-> <<>>] : n \in RawNames }
    \cup
    { [name |-> n, email |-> e, course |-> c, date |-> d, grade |-> c] :
          n \in {<<"a">>, <<"<", ">">>}, e \in RawEmails, c \in RawCourses,
          d \in RawDates }

\* sanitizeString: trim, then remove every '<' and '>'
sanitizeString(input) ==
    SelectSeq(Trim(input), LAMBDA ch : ch \notin {"<", ">"})

\* isValidEmail: /^[^\s@]+@[^\s@]+\.[^\s@]+$/ on the trimmed email
isValidEmail(email) ==
    LET s == Trim(email)
        ok(a, b) == b >= a /\ \A k \in a..b : s[k] \notin {" ", "@"}
    IN \E at \in 1..Len(s), dot \in 1..Len(s) :
           /\ s[at] = "@" /\ s[dot] = "."
           /\ ok(1, at - 1) /\ ok(at + 1, dot - 1) /\ ok(dot + 1, Len(s))

\* isValidDate: whether Date parses the string
isValidDate(dateString) == dateString = ValidDate

\* formatDate: the date in long en-US form, or what Date prints for a
\* string it does not parse
formatDate(dateString) ==
    IF isValidDate(dateString) THEN <<"January 15, 2024">>
    ELSE <<"Invalid Date">>

ValidationError(row, field) == [row |-> row, field |-> field]

\* The required-field check of validateAndCreateParticipant.
NameRejected(row) ==
    row.name = Missing \/ row.name = <<>> \/ Trim(row.name) = <<>>

\* The errors validateAndCreateParticipant pushes for the row.
RowErrors(row, rowNumber) ==
    IF NameRejected(row) THEN << ValidationError(rowNumber, "name") >>
    ELSE (IF row.email # <<>> /\ ~isValidEmail(row.email)
          THEN << ValidationError(rowNumber, "email") >> ELSE <<>>)
         \o
         (IF row.date # <<>> /\ ~isValidDate(row.date)
          THEN << ValidationError(rowNumber, "date") >> ELSE <<>>)

\* The participant validateAndCreateParticipant returns for a row that
\* passed the required-field check; an absent optional field is <<>>.
CreatedParticipant(row, rowNumber, now) ==
    [id |-> <<rowNumber, now>>,
     name |-> sanitizeString(row.name),
     email |-> IF row.email # <<>> THEN sanitizeString(row.email) ELSE <<>>,
     course |-> IF row.course # <<>> THEN sanitizeString(row.course)
                ELSE <<>>,
     date |-> IF row.date # <<>> THEN formatDate(row.date) ELSE <<>>,
     grade |-> IF row.grade # <<>> THEN sanitizeString(row.grade) ELSE <<>>]

\* processCSVData, from row k on; clock[k] is Date.now() at row k
RECURSIVE processCSVData(_, _, _, _, _)
processCSVData(data, k, clock, ps, errs) ==
    IF k > Len(data) THEN [participants |-> ps, errors |-> errs]
    ELSE processCSVData(data, k + 1, clock,
                        IF NameRejected(data[k]) THEN ps
                        ELSE Append(ps, CreatedParticipant(data[k], k,
                                                           clock[k])),
                        errs \o RowErrors(data[k], k))

FileError == << [row |-> 0, field |-> "file"] >>

\* parseCSVFile: the size and type checks, the parse, the rows processed
parseCSVFile ==
    /\ csvPc = "file"
    /\ \E clock \in [1..Len(csvRows) -> 0..1] :
           /\ \A k \in 1..(Len(csvRows) - 1) : clock[k] <= clock[k + 1]
           /\ csvResult' =
                  IF csvFile = "csv"
                  THEN LET r == processCSVData(csvRows, 1, clock, <<>>, <<>>)
                       IN [participants |-> r.participants,
                           errors |-> r.errors,
                           totalRows |-> Len(csvRows)]
                  ELSE [participants |-> <<>>, errors |-> FileError,
                        totalRows |-> 0]
    /\ csvPc' = "resolved"
    /\ UNCHANGED << propVars, activeTab, attached, editedInFlight,
                    previousTemplate, inflight, orphaned, textVars, csvFile, csvRows,
                    appQRVars,
                    batchVars, qrVars, renderVars, previewVars >>

InitCsv ==
    /\ participants = <<>>
    /\ template \in {t \in DefaultTemplates : ~t.logoUrl /\ ~t.signatureUrl}
    /\ includeQR = TRUE
    /\ rendererImpl = "part_003"
    /\ previewConfig = NoConfig
    /\ activeTab = "upload"
    /\ wrapInput = <<>>
    /\ wrapWidth = 0
    /\ textPc = "none"
    /\ csvFile \in {"csv", "tooLarge", "notCsv", "parseError"}
    /\ csvRows \in IF csvFile = "csv"
                   THEN UNION { [1..n -> Rows] : n \in 0..MaxRows }
                   ELSE { <<>> }
    /\ csvResult = NoResult
    /\ csvPc = "file"
    /\ NoPreviewQR
    /\ InitIdle

NextCsv == parseCSVFile

SpecCsv == InitCsv /\ [][NextCsv]_vars

-----------------------------------------------------------------------------
(* App: the QR code of the preview.  The effect runs after every render in *)
(* which includeQR or selectedParticipant changed; each run that generates *)
(* is suspended in QRCodeGenerator.generateVerificationQR until the        *)
(* generation settles, and nothing cancels a run.                          *)

\* generateQR of the effect, run with the includeQR and the participant of
\* the render that scheduled it.
generateQR(include, selected) ==
    IF include
    THEN /\ qrGenerations' = Append(qrGenerations, selected.id)
         /\ UNCHANGED qrCodeUrl
    ELSE /\ qrCodeUrl' = <<>>
         /\ UNCHANGED qrGenerations

\* The participant selector of the preview tab, shown for more than one
\* participant: setSelectedParticipant, then the effect.
SelectParticipant(k) ==
    /\ activeTab = "preview"
    /\ N > 1
    /\ k \in 1..N
    /\ participants[k].id # selectedParticipant.id
    /\ includeQR => Len(qrGenerations) < MaxPending
    /\ selectedParticipant' = participants[k]
    /\ generateQR(includeQR, participants[k])
    /\ UNCHANGED << propVars, activeTab, attached, editedInFlight,
                    previousTemplate, inflight, orphaned, textVars, csvVars,
                    batchVars, qrVars, renderVars, previewVars >>

\* The includeQR checkbox of the preview, App.handleConfigChange, then the
\* effect.
SetIncludeQR(value) ==
    /\ activeTab = "preview"
    /\ value # includeQR
    /\ value => Len(qrGenerations) < MaxPending
    /\ includeQR' = value
    /\ generateQR(value, selectedParticipant)
    /\ UNCHANGED << participants, template, rendererImpl, selectedParticipant,
                    activeTab, attached, editedInFlight, previousTemplate,
                    inflight, orphaned, textVars, csvVars,
                    batchVars, qrVars, renderVars, previewVars >>

\* A pending generation settles and its run of generateQR resumes:
\* setQrCodeUrl(qr) when it fulfilled, setQrCodeUrl('') in the catch.
GenerationSettles(j, ok) ==
    /\ j \in 1..Len(qrGenerations)
    /\ qrGenerations' = RemoveAt(qrGenerations, j)
    /\ qrCodeUrl' = IF ok THEN generateVerificationQR(qrGenerations[j])
                          ELSE <<>>
    /\ UNCHANGED << propVars, selectedParticipant, activeTab, attached,
                    editedInFlight, previousTemplate, inflight, orphaned,
                    textVars, csvVars, batchVars, qrVars, renderVars,
                    previewVars >>

\* After an import: the first participant is selected and the preview tab
\* shown, includeQR is still true, and the effect has started a generation
\* for that participant.  The generation started on mount for the sample
\* participant is pending or has settled.
InitQR ==
    /\ \E n \in 1..MaxRecords :
           participants = [k \in 1..n |-> ParticipantOf(k, <<"c">>)]
    /\ template \in {t \in DefaultTemplates :
                          ~t.logoUrl /\ ~t.signatureUrl}
    /\ includeQR = TRUE
    /\ rendererImpl = "part_003"
    /\ previewConfig = NoConfig
    /\ activeTab = "preview"
    /\ NoText
    /\ selectedParticipant = participants[1]
    /\ \/ /\ qrGenerations = << sampleParticipant.id, participants[1].id >>
          /\ qrCodeUrl = <<>>
       \/ /\ qrGenerations = << participants[1].id >>
          /\ qrCodeUrl \in {<<>>, generateVerificationQR(sampleParticipant.id)}
    /\ pc = "idle"
    /\ i = 1
    /\ errors = <<>>
    /\ qrCodes = NullMap
    /\ zip = EmptyMap
    /\ isGenerating = FALSE
    /\ progress = NoProgress
    /\ qrPending = {}
    /\ qrMap = EmptyMap
    /\ qrRejected = FALSE
    /\ qrFailedIds = {}
    /\ rpc = "idle"
    /\ cfg = NoConfig
    /\ canvas = <<>>
    /\ ctx = DefaultCtx
    /\ canvasWidth = 300
    /\ currentTemplate = <<>>
    /\ rret = NoArtifact
    /\ previewUrl = NoArtifact
    /\ isRendering = FALSE
    /\ attempted = <<>>
    /\ outcomes = <<>>
    /\ downloaded = FALSE
    /\ archiveFailed = FALSE
    /\ notifications = <<>>
    /\ runTemplate = template
    /\ runIncludeQR = includeQR
    /\ attached = FALSE
    /\ editedInFlight = FALSE
    /\ previousTemplate = <<>>
    /\ inflight = <<>>
    /\ orphaned = <<>>
    /\ bodyDrawn = <<>>
    /\ wrapLines = <<>>
    /\ loadFailed = {}
    /\ primitiveFailed = FALSE

NextQR ==
    \/ \E k \in 1..MaxRecords : SelectParticipant(k)
    \/ \E value \in BOOLEAN : SetIncludeQR(value)
    \/ \E j \in 1..MaxPending, ok \in BOOLEAN : GenerationSettles(j, ok)

SpecQR == InitQR /\ [][NextQR]_vars

-----------------------------------------------------------------------------
(* Properties of the batch *)

\* The entries of errors pushed by the per-record catch, in list order.
RecordErrors == SelectSeq(errors, LAMBDA e : e.kind = "record")

\* The recorded outcomes of the records that failed, in the order recorded.
FailedOutcomes == SelectSeq(outcomes, LAMBDA o : ~o.ok)

SucceededOutcomes == SelectSeq(outcomes, LAMBDA o : o.ok)

NameOf(k) == participants[k].name

\* The loop has processed every record.
LoopOver == (pc = "loop" /\ i > N) \/ pc = "done"

\* C1: whatever records fail, each failure (render or packaging) appends
\* exactly one error naming the failed record, and the loop goes on: the
\* records are submitted to the renderer one after the other and, when the
\* batch is over, all N have been submitted.
C1_FailureIsolated ==
    /\ Len(RecordErrors) = Len(FailedOutcomes)
    /\ \A k \in 1..Len(FailedOutcomes) :
           \E j \in 1..Len(errors) :
               errors[j] = CertError(NameOf(FailedOutcomes[k].index))
    /\ \A k \in 1..Len(attempted) : attempted[k] = k
    /\ LoopOver => Len(attempted) = N

\* A finished batch whose first record failed and whose second record was
\* still rendered and packaged.
C1_Witness ==
    /\ pc = "done"
    /\ Len(outcomes) = 2
    /\ ~outcomes[1].ok
    /\ outcomes[2].ok
    /\ errors = << CertError(NameOf(1)) >>

\* C2: once the loop is over, every input record has exactly one outcome,
\* an artifact handed to the archive or a per-record error entry, so that
\* succeeded + failed = N; every per-record entry names an input record;
\* entries of another kind are not counted as record failures.
C2_OneOutcomePerRecord ==
    LoopOver =>
        /\ \A k \in 1..N :
               Cardinality({m \in 1..Len(outcomes) : outcomes[m].index = k})
                   = 1
        /\ Len(SucceededOutcomes) + Len(RecordErrors) = N
        /\ \A j \in 1..Len(RecordErrors) :
               \E k \in 1..N : RecordErrors[j] = CertError(NameOf(k))

\* A finished batch with one artifact and one per-record error.
C2_Witness ==
    /\ pc = "done"
    /\ N = 2
    /\ Len(SucceededOutcomes) = 1
    /\ Len(RecordErrors) = 1

AllIds == {participants[k].id : k \in 1..N}

\* The QR phase of this batch is over and no id got a QR image.
QRFailedForAll ==
    /\ includeQR
    /\ pc # "idle"
    /\ qrPending = {}
    /\ qrFailedIds = AllIds

HasOp(log, op) == \E k \in 1..Len(log) : log[k].op = op

Count(seq, x) == Cardinality({j \in 1..Len(seq) : seq[j] = x})

\* C3 (as claimed): when includeQR is set and the QR generation of the
\* batch fails as a whole (the provider yields a QR image for no id),
\* exactly one aggregate error is in the error list, the batch is not
\* aborted, and every record is rendered with includeQR false and no QR
\* payload.
C3_AggregateErrorOnQRFailure ==
    (LoopOver /\ QRFailedForAll) =>
        /\ Count(errors, QRError) = 1
        /\ Len(outcomes) = N
        /\ \A k \in 1..Len(outcomes) :
               ~outcomes[k].includeQR /\ outcomes[k].qrCodeUrl = NoValue

\* C4 (as claimed): in a batch with includeQR set in which QR generation
\* fails for every id (and nothing else fails), the batch completes with N
\* artifacts, no per-record failure, exactly one aggregate QR error in the
\* error list, and no artifact carries a QR mark.
C4_AllQRFailScenario ==
    (pc = "done" /\ downloaded /\ QRFailedForAll /\ FailedOutcomes = <<>>) =>
        /\ Len(SucceededOutcomes) = N
        /\ RecordErrors = <<>>
        /\ Count(progress.errors, QRError) = 1
        /\ \A k \in 1..Len(outcomes) : ~HasOp(outcomes[k].artifact, "qr")

\* C5: whatever ids fail, generateBatchQRCodes never rejects, the keys of
\* its map are at any time the ids whose generation has succeeded, and the
\* map it returns has exactly the ids that did not fail.
C5_QRKeysAreSucceededIds ==
    /\ ~qrRejected
    /\ (includeQR /\ pc \notin {"idle", "crashed"}) =>
           MapKeys(qrMap) =
               {participants[k].id : k \in (1..N) \ qrPending} \ qrFailedIds
    /\ (includeQR /\ pc \in {"loop", "render", "done"}) =>
           /\ ~qrCodes.null
           /\ MapKeys(qrCodes.map) = AllIds \ qrFailedIds

\* The call has returned a map with one of two ids, the other one failed.
C5_Witness ==
    /\ includeQR
    /\ pc = "loop"
    /\ N = 2
    /\ qrFailedIds = {participants[1].id}
    /\ MapKeys(qrCodes.map) = {participants[2].id}

\* C6 (as claimed): whenever the success message is shown, the number of
\* certificates it reports is the number of records processed minus the
\* number of records that failed.
C6_ReportedCount ==
    SuccessBanner => ReportedSuccess = Len(outcomes) - Len(FailedOutcomes)

\* C7: records are rendered in input order, the render of a record begins
\* only when the outcome of every earlier record is recorded, and the
\* per-record entries of the error list are in the input order of their
\* records.
C7_InputOrder ==
    /\ \A k \in 1..Len(attempted) : attempted[k] = k
    /\ \A k \in 1..Len(outcomes) : outcomes[k].index = k
    /\ Len(attempted) = IF pc = "render" THEN Len(outcomes) + 1
                        ELSE Len(outcomes)
    /\ Len(RecordErrors) = Len(FailedOutcomes)
    /\ \A k \in 1..Len(RecordErrors) :
           k <= Len(FailedOutcomes) =>
               RecordErrors[k] = CertError(NameOf(FailedOutcomes[k].index))

\* Two records with different names failed; their errors are in input order.
C7_Witness ==
    /\ pc = "done"
    /\ N = 2
    /\ NameOf(1) # NameOf(2)
    /\ errors = << CertError(NameOf(1)), CertError(NameOf(2)) >>

\* C8: no render begins before every QR generation of the batch has
\* settled, and the QR payload handed to a render is the final one for its
\* record: the image generated for its id, or none if that generation
\* failed.
C8_RenderAfterQRSettled ==
    (includeQR /\ Len(attempted) > 0) =>
        /\ qrPending = {}
        /\ pc = "render" =>
               /\ cfg.includeQR = (participants[i].id \notin qrFailedIds)
               /\ cfg.qrCodeUrl =
                      IF participants[i].id \in qrFailedIds THEN NoValue
                      ELSE generateVerificationQR(participants[i].id)

\* The second record is being rendered with its QR image after the
\* generation for the first id failed.
C8_Witness ==
    /\ includeQR
    /\ pc = "render"
    /\ i = 2
    /\ qrFailedIds = {participants[1].id}
    /\ cfg.qrCodeUrl = generateVerificationQR(participants[2].id)
    /\ rpc = "qr"

\* The last record, in input order, that was packaged under the file name
\* of record k.
LastPackagedAs(k) ==
    CHOOSE m \in 1..Len(outcomes) :
        /\ outcomes[m].ok
        /\ FileName(NameOf(m)) = FileName(NameOf(k))
        /\ \A m2 \in 1..Len(outcomes) :
               (outcomes[m2].ok /\ FileName(NameOf(m2)) = FileName(NameOf(k)))
                   => m2 <= m

\* C9 (as claimed): at completion, for every record that succeeded, the
\* archive entry under the file name derived from its name holds the
\* artifact rendered for that record.
C9_EntryHoldsOwnArtifact ==
    LoopOver =>
        \A k \in 1..Len(outcomes) :
            outcomes[k].ok =>
                /\ MapHas(zip, FileName(NameOf(k)))
                /\ MapGet(zip, FileName(NameOf(k))) = outcomes[k].artifact

\* C9 (amended): at completion, for every record that succeeded, the
\* archive entry under the file name derived from its name holds the
\* artifact of the last successful record, in input order, whose name
\* derives that file name.
C9_EntryHoldsLastArtifact ==
    LoopOver =>
        \A k \in 1..Len(outcomes) :
            outcomes[k].ok =>
                /\ MapHas(zip, FileName(NameOf(k)))
                /\ MapGet(zip, FileName(NameOf(k))) =
                       outcomes[LastPackagedAs(k)].artifact

\* Two records with different names and the same file name both succeeded:
\* the entry holds the second artifact, which differs from the first.
C9_Witness ==
    /\ pc = "done"
    /\ Len(outcomes) = 2
    /\ outcomes[1].ok /\ outcomes[2].ok
    /\ NameOf(1) # NameOf(2)
    /\ FileName(NameOf(1)) = FileName(NameOf(2))
    /\ outcomes[1].artifact # outcomes[2].artifact
    /\ MapGet(zip, FileName(NameOf(1))) = outcomes[2].artifact

-----------------------------------------------------------------------------
(* Properties of one render *)

-----------------------------------------------------------------------------
(* Properties of the end of a batch and of its progress updates *)

\* The elements of a list.
Range(seq) == {seq[k] : k \in 1..Len(seq)}

\* C11: when the archive cannot be assembled after the loop, the batch is
\* over as a whole-batch failure: the reported error list holds the batch
\* failure message, the generating flag is cleared and no download was
\* triggered.
C11_ArchiveFailureIsBatchFailure ==
    archiveFailed =>
        /\ pc = "done"
        /\ BatchError \in Range(progress.errors)
        /\ ~isGenerating
        /\ ~downloaded

\* Both records were processed, one of them packaged, and the archive
\* assembly failed.
C11_Witness ==
    /\ archiveFailed
    /\ Len(outcomes) = 2
    /\ outcomes[1].ok
    /\ progress.errors = << BatchError >>

\* C12 (as claimed): when a batch is over, with or without an archive, every
\* failure message recorded during the batch is in the reported error list.
C12_NoFailureDropped ==
    pc = "done" => Range(errors) \subseteq Range(progress.errors)

\* C13 (as claimed): one progress update per record, with index k, total N
\* and the record's name, in increasing index order, each made after the
\* outcome of its record was recorded.
C13_NotifiedAfterProcessed ==
    /\ Len(notifications) <= N
    /\ LoopOver => Len(notifications) = N
    /\ \A k \in 1..Len(notifications) :
           /\ notifications[k].current = k
           /\ notifications[k].total = N
           /\ notifications[k].currentParticipant = NameOf(k)
           /\ notifications[k].processed >= k

\* C13 (amended): one progress update per record, with index k, total N and
\* the record's name, in increasing index order, each made when the loop
\* reaches its record: after the outcome of the record before it was
\* recorded, and before its own render starts.
C13_NotifiedBeforeRender ==
    /\ Len(notifications) <= N
    /\ LoopOver => Len(notifications) = N
    /\ Len(notifications) = Len(attempted)
    /\ \A k \in 1..Len(notifications) :
           /\ notifications[k].current = k
           /\ notifications[k].total = N
           /\ notifications[k].currentParticipant = NameOf(k)
           /\ notifications[k].processed = k - 1

\* The second record's update was made while its render had not started
\* and after the first record had failed.
C13_Witness ==
    /\ pc = "render"
    /\ rpc = "logo"
    /\ Len(notifications) = 2
    /\ Len(outcomes) = 1
    /\ ~outcomes[1].ok
    /\ progress.current = 2

-----------------------------------------------------------------------------
(* Properties of a batch whose view is left or whose settings are edited *)

\* C14 (as claimed): once the batch view has been left while its run was in
\* flight, the render in flight may complete but no further record is
\* submitted to the renderer.
C14_NoRecordAfterAbandon ==
    [][(Abandoned /\ Abandoned') => attempted' = attempted]_vars

\* C16: every render of a run uses the template and the includeQR flag that
\* were current when the run started, whatever edits are made while it is in
\* flight; a run started after an edit uses the edited values.
C16_RendersUseStartValues ==
    /\ (InFlight /\ ~editedInFlight) =>
           runTemplate = template /\ runIncludeQR = includeQR
    /\ pc = "render" =>
           /\ cfg.template = runTemplate
           /\ cfg.includeQR =
                  (runIncludeQR /\ ~qrCodes.null
                       /\ MapHas(qrCodes.map, participants[i].id))
    /\ (InFlight \/ pc = "done") =>
           \A k \in 1..Len(outcomes) :
               /\ outcomes[k].template = runTemplate
               /\ outcomes[k].includeQR => runIncludeQR

\* A run started after the title was edited renders its second record with
\* that title and with QR codes, although title and includeQR were edited
\* again after its first record.
C16_Witness ==
    /\ pc = "render"
    /\ Len(outcomes) = 1
    /\ editedInFlight
    /\ runTemplate.titleText = <<"Diploma">>
    /\ template.titleText = DefaultTitle
    /\ runIncludeQR /\ ~includeQR
    /\ outcomes[1].ok /\ outcomes[1].includeQR
    /\ cfg.template = runTemplate
    /\ cfg.includeQR

-----------------------------------------------------------------------------
(* Properties of a renderer that is used again *)

\* One step of a render on its own: the image step r is suspended on settles
\* (it fails for the steps in failed) and the render goes on.
RunOn(impl, c, cur, failed, r) ==
    IF r.rpc \in {"logo", "signature", "qr"}
    THEN Continue(impl, c, r.rpc,
                  ImageSettled(impl, c, cur, r.rpc, r.rpc \notin failed,
                               [log |-> r.canvas, ctx |-> r.ctx,
                                width |-> r.width]))
    ELSE r

\* What renderCertificate(c) does on a renderer just constructed on a blank
\* canvas, when the image loads in failed fail and no primitive throws.
FreshRender(impl, c, failed) ==
    LET cur == StoreTemplate(<<>>, c.template)
    IN RunOn(impl, c, cur, failed,
             RunOn(impl, c, cur, failed,
                   RunOn(impl, c, cur, failed, BeginRender(impl, c))))

\* C17: a call that resolves has painted, and returns, exactly what a
\* renderer constructed for this call alone would have, given the same
\* config and the same image load outcomes: the paint operations, the text
\* state they were drawn with and the artifact do not depend on the calls
\* made before on the same renderer and canvas.
C17_RenderIndependentOfEarlierCalls ==
    rpc = "resolved" =>
        LET fresh == FreshRender(rendererImpl, cfg, loadFailed)
        IN /\ fresh.rpc = "resolved"
           /\ canvas = fresh.canvas
           /\ ctx = fresh.ctx
           /\ rret = fresh.rret

\* A call with logo and signature resolved on a renderer whose call before
\* placed both elsewhere.
C17_Witness ==
    /\ rpc = "resolved"
    /\ rendererImpl = "part_003"
    /\ previousTemplate # <<>>
    /\ previousTemplate[1].logoPosition # cfg.template.logoPosition
    /\ previousTemplate[1].signaturePosition # cfg.template.signaturePosition
    /\ HasOp(canvas, "logo") /\ HasOp(canvas, "signature")
    /\ rret = canvas

-----------------------------------------------------------------------------
(* Properties of the renders that share the canvas of the preview *)

-----------------------------------------------------------------------------
(* Properties of the text functions *)

\* The tokens of a text: its maximal runs of symbols other than the space.
Words(s) == SelectSeq(Split(s, " "), LAMBDA w : w # <<>>)

\* The tokens of the lines, read line after line.
RECURSIVE WordsOfLines(_)
WordsOfLines(ls) ==
    IF ls = <<>> THEN <<>> ELSE Words(Head(ls)) \o WordsOfLines(Tail(ls))

\* Tokens joined by single spaces.
RECURSIVE JoinWords(_)
JoinWords(ws) ==
    IF ws = <<>> THEN <<>>
    ELSE IF Len(ws) = 1 THEN ws[1]
    ELSE ws[1] \o <<" ">> \o JoinWords(Tail(ws))

\* The lines wrapText returned hold the tokens of the text, each whole and
\* once, in the order of the text.
WordsPreserved ==
    textPc \in {"wrapped", "drawn"} =>
        WordsOfLines(wrapLines) = Words(wrapInput)

\* s occurs in t as a contiguous piece.
IsPieceOf(s, t) ==
    \E k \in 0..(Len(t) - Len(s)) : SubSeq(t, k + 1, k + Len(s)) = s

\* The text has no space at either end and no two spaces in a row.
SingleSpaced(s) == s = JoinWords(Words(s))

C19_EmptyBodyNoLines ==
    (wrapInput = <<>> /\ textPc \in {"wrapped", "drawn"}) =>
        /\ wrapLines = <<>>
        /\ textPc = "drawn" =>
               /\ ~HasOp(bodyDrawn, "body")
               /\ \A k \in 1..Len(bodyDrawn) :
                      /\ bodyDrawn[k].op = "course" => bodyDrawn[k].at = 250
                      /\ bodyDrawn[k].op = "grade" => bodyDrawn[k].at = 280

-----------------------------------------------------------------------------
(* Properties of the import *)

\* C20 (as claimed): every record the import produces has a name that is
\* not empty, has no space at either end and holds no '<' or '>', whatever
\* the name of its row.
C20_NamesNonEmptySanitized ==
    csvPc = "resolved" =>
        \A k \in 1..Len(csvResult.participants) :
            LET name == csvResult.participants[k].name
            IN /\ name # <<>>
               /\ Trim(name) = name
               /\ \A j \in 1..Len(name) : name[j] \notin {"<", ">"}

\* The words of a line as wrapText joined them: the pieces between spaces.
TokensOf(line) == Split(line, " ")

\* The first j of the words, joined by single spaces.
JoinFirst(ws, j) == JoinWords(SubSeq(ws, 1, j))

\* C21 (as claimed): in wrapText a word is appended to the current line
\* exactly when the current line, a space and the word together are not
\* wider than maxWidth: every line that holds several words is at most
\* maxWidth wide up to each of them, and every closed line would have been
\* wider than maxWidth with the word that starts the next line; a candidate
\* exactly maxWidth wide stays on the line.
C21_AppendedIffNotWider ==
    textPc \in {"wrapped", "drawn"} =>
        /\ \A k \in 1..Len(wrapLines) :
               \A j \in 2..Len(TokensOf(wrapLines[k])) :
                   measureText(JoinFirst(TokensOf(wrapLines[k]), j))
                       <= wrapWidth
        /\ \A k \in 1..(Len(wrapLines) - 1) :
               measureText(wrapLines[k] \o <<" ">>
                           \o Head(TokensOf(wrapLines[k + 1]))) > wrapWidth

\* The fillText calls that drew body lines and the name, in paint order.
BodyOps == SelectSeq(bodyDrawn, LAMBDA o : o.op \in {"body", "name"})

\* The lines a segment of the body text wraps into; an empty segment is
\* not wrapped.
SegmentLines(segment) ==
    IF Trim(segment) = <<>> THEN <<>>
    ELSE wrapText(rendererImpl, Trim(segment), wrapWidth)

\* C22 (as claimed): a body text with exactly one {name} is drawn as the
\* wrapped lines of the text before it, then the name once, on one line, in
\* the name's size and colour, then the wrapped lines of the text after it
\* in the body style, each strictly below the one before, whatever the
\* width of the name.
C22_BeforeNameAfter ==
    (textPc = "drawn" /\ Count(wrapInput, NameToken) = 1) =>
        LET parts == Split(wrapInput, NameToken)
            before == SegmentLines(parts[1])
            after == SegmentLines(parts[2])
            n == Len(before)
        IN /\ [k \in 1..Len(BodyOps) |-> BodyOps[k].arg]
                  = before \o << participants[1].name >> \o after
           /\ \A k \in 1..Len(BodyOps) :
                  /\ BodyOps[k].op = "name" <=> k = n + 1
                  /\ k = n + 1 => /\ BodyOps[k].style.font = "bold name"
                                  /\ BodyOps[k].style.fillStyle = "name"
                  /\ k > n + 1 => /\ BodyOps[k].style.font = "body"
                                  /\ BodyOps[k].style.fillStyle = "body"
                  /\ k > 1 => BodyOps[k].at > BodyOps[k - 1].at

\* C23 (as claimed): a body text without {name} is wrapped as one block and
\* its lines are drawn unchanged, with the name drawn nowhere; and no
\* drawn line of a body text with at most one {name} holds the literal
\* {name}.
C23_NoTokenNoName ==
    textPc = "drawn" =>
        /\ Count(wrapInput, NameToken) = 0 =>
               /\ [k \in 1..Len(BodyOps) |-> BodyOps[k].arg]
                      = wrapText(rendererImpl, wrapInput, wrapWidth)
               /\ \A k \in 1..Len(BodyOps) : BodyOps[k].op = "body"
        /\ Count(wrapInput, NameToken) <= 1 =>
               \A k \in 1..Len(BodyOps) :
                   ~Includes(BodyOps[k].arg, NameToken)

-----------------------------------------------------------------------------
(* Properties of one render *)

\* The place of a paint operation in the order of the steps.
StepOf(op) ==
    CASE op = "background" -> 1
      [] op \in {"border", "inner-border"} -> 2
      [] op = "logo" -> 3
      [] op = "title" -> 4
      [] op \in {"body", "name", "course", "grade"} -> 5
      [] op \in {"signature", "signature-line", "signature-label"} -> 6
      [] op \in {"qr", "qr-label", "qr-placeholder",
                 "qr-placeholder-text"} -> 7
      [] op = "date" -> 8

\* The step a render suspended at an image load is in.
StepAt(at) ==
    CASE at = "logo" -> 3
      [] at = "signature" -> 6
      [] at = "qr" -> 7
      [] OTHER -> 8

\* C24: in a render the paint operations follow the order background,
\* border, logo, title, body text, signature, QR code, date, whether the
\* images load or fail: while the render waits for an image nothing of a
\* later step has been painted, and the artifact is encoded after the last
\* paint.
C24_FixedPaintOrder ==
    isRendering =>
        /\ \A j, k \in 1..Len(canvas) :
               j < k => StepOf(canvas[j].op) <= StepOf(canvas[k].op)
        /\ \A k \in 1..Len(canvas) : StepOf(canvas[k].op) <= StepAt(rpc)
        /\ (rpc = "resolved" /\ rendererImpl = "part_003") =>
               /\ rret = canvas
               /\ canvas[Len(canvas)].op = "date"

\* A render has ended with the logo, the signature and the QR image
\* loaded and painted.
C24_Witness ==
    /\ isRendering
    /\ rpc = "resolved"
    /\ HasOp(canvas, "logo")
    /\ HasOp(canvas, "signature")
    /\ HasOp(canvas, "qr")
    /\ HasOp(canvas, "title")

\* C25 (as claimed): a render asked to include the QR code that has no QR
\* image, because the config holds no QR URL or because the image failed
\* to load, paints nothing where the QR code goes: no image, no caption, no
\* placeholder.
C25_NoQRNothingPainted ==
    (/\ isRendering
     /\ cfg.includeQR
     /\ cfg.qrCodeUrl = NoValue \/ "qr" \in loadFailed) =>
        \A k \in 1..Len(canvas) : StepOf(canvas[k].op) # 7

-----------------------------------------------------------------------------
(* Properties of the archive *)

\* The records that succeeded and were packaged under file name f.
PackagedAs(f) ==
    {k \in 1..Len(outcomes) : outcomes[k].ok /\ FileName(NameOf(k)) = f}

\* The largest of a non-empty set of indices.
Last(S) == CHOOSE k \in S : \A j \in S : j <= k

\* C26: when the loop is over, the archive has one entry per distinct file
\* name among the records that succeeded, each holding the artifact of the
\* last such record in input order, and the records whose entry was
\* replaced have no error: the per-record errors are those of the failed
\* records only.
C26_CollisionKeepsLast ==
    LoopOver =>
        /\ MapKeys(zip) =
               {FileName(NameOf(k)) :
                    k \in {j \in 1..Len(outcomes) : outcomes[j].ok}}
        /\ Cardinality(zip) = Cardinality(MapKeys(zip))
        /\ \A e \in zip : e.value = outcomes[Last(PackagedAs(e.key))].artifact
        /\ Len(RecordErrors) = Len(FailedOutcomes)
        /\ \A k \in 1..Len(outcomes) :
               outcomes[k].ok =>
                   \A j \in 1..Len(RecordErrors) :
                       RecordErrors[j].name = NameOf(k) =>
                           \E m \in 1..Len(outcomes) :
                               ~outcomes[m].ok /\ NameOf(m) = NameOf(k)

\* Two records whose names give one file name both succeeded: the archive
\* has one entry, with the second artifact, and no error is recorded.
C26_Witness ==
    /\ pc = "done"
    /\ Len(outcomes) = 2
    /\ Cardinality(PackagedAs(FileName(NameOf(1)))) = 2
    /\ outcomes[1].artifact # outcomes[2].artifact
    /\ zip = {[key |-> FileName(NameOf(1)), value |-> outcomes[2].artifact]}
    /\ errors = <<>>

-----------------------------------------------------------------------------
(* Termination of the batch *)

\* The batch is waiting for a QR generation or an image load to signal.
AwaitingAsset ==
    \/ pc = "qr" /\ qrPending # {}
    \/ pc = "render" /\ rpc \in {"logo", "signature", "qr"}

\* The batch can take a step of its own.
BatchCanStep ==
    \/ pc = "qr" /\ (qrRejected \/ PromiseAllResolves(qrPending))
    \/ pc = "loop"
    \/ pc = "render" /\ rpc \in {"resolved", "rejected"}

\* C27 (as claimed): a started batch whose generating flag is still set is
\* on its way to the end: it can take its next step, or it is waiting for a
\* QR generation or an image load to signal; nothing else keeps a batch in
\* progress.
C27_OnlyAssetLoadsSuspend ==
    isGenerating => (BatchCanStep \/ AwaitingAsset)

-----------------------------------------------------------------------------
(* Properties of the runs *)

\* The batch runs that have started and not ended.
RunsInFlight == Len(orphaned) + (IF InFlight THEN 1 ELSE 0)

\* C28 (as claimed): at most one batch run is in flight at any time, also
\* when the user leaves the batch tab and comes back while a run is still
\* processing records.
C28_OneRunInFlight == RunsInFlight <= 1

-----------------------------------------------------------------------------
(* Properties of the import result *)

\* The rows of the result that have a record, and those that have an error.
RowsWithRecord ==
    {csvResult.participants[k].id[1] :
         k \in 1..Len(csvResult.participants)}

RowsWithError ==
    {csvResult.errors[k].row : k \in 1..Len(csvResult.errors)}

\* C30 (as claimed): in the result of an import of parsed rows every row
\* has exactly one record or at least one validation error and never both,
\* so records plus rows with an error make totalRows, and every row number
\* recorded lies in 1..totalRows.
C30_RecordOrErrorPerRow ==
    (csvPc = "resolved" /\ csvFile = "csv") =>
        /\ csvResult.totalRows = Len(csvRows)
        /\ RowsWithRecord \cup RowsWithError = 1..csvResult.totalRows
        /\ RowsWithRecord \cap RowsWithError = {}
        /\ Cardinality(RowsWithRecord) = Len(csvResult.participants)
        /\ Len(csvResult.participants) + Cardinality(RowsWithError)
               = csvResult.totalRows

-----------------------------------------------------------------------------
(* Properties of the QR code of the preview *)

\* C29 (as claimed): once every pending QR generation of the preview has
\* settled, the stored QR code is empty when includeQR is off, and when
\* includeQR is on it is the QR code generated for the selected participant
\* (or empty, the generation having failed): a generation that finishes late
\* has overwritten nothing.
C29_SettledQRIsCurrent ==
    qrGenerations = <<>> =>
        IF includeQR
        THEN qrCodeUrl \in {generateVerificationQR(selectedParticipant.id),
                            <<>>}
        ELSE qrCodeUrl = <<>>

====
